---- MODULE Spec2Model ----
(***************************************************************************)
(* The record access layer of the VC investment tracker: the two tables    *)
(* `investments` and `exit_details`, and one action per handler of         *)
(* server/src/handlers.  Every handler is a sequence of awaited store      *)
(* statements; in the specification Spec a handler runs without another    *)
(* handler in between, so one action is one whole handler.                 *)
(*                                                                         *)
(* Time.  `now` is the wall clock in ticks.  Every awaited store statement *)
(* is a round trip to the database and takes one tick; defaultNow() stamps *)
(* a row with the time of the statement that inserts it and `new Date()`   *)
(* reads the clock where the handler evaluates it.  The handlers' tests    *)
(* take the same view: they expect the updated_at that createExitDetails   *)
(* writes to be later than the created_at of a row inserted just before.   *)
(*                                                                         *)
(* Numbers.  Monetary inputs and outputs are in thousandths of a currency  *)
(* unit, the numeric(15,2) columns hold hundredths; percentages and        *)
(* multiples are in units of 10^-7, the real columns keep RealDigits       *)
(* significant decimal digits.                                             *)
(***************************************************************************)
EXTENDS Integers, Sequences, FiniteSets, TLC

VARIABLES
    investments,           \* the rows of table investments
    exit_details,          \* the rows of table exit_details
    investments_id_seq,    \* the serial sequence behind investments.id
    exit_details_id_seq,   \* the serial sequence behind exit_details.id
    now,                   \* the clock
    call,                  \* the last handled request: handler, input, outcome, response
    before,                \* history: the two tables as they were when that request arrived
    scenario,              \* history: progress of the run create investment, create exit, delete exit
    returned_ids,          \* history: the ids createInvestment has returned, in order
    inflight,              \* the requests handled statement by statement, one per caller
    dashboard              \* the dashboard: its state and its loads under way

vars == <<investments, exit_details, investments_id_seq, exit_details_id_seq, now, call, before,
          scenario, returned_ids, inflight, dashboard>>

----------------------------------------------------------------------------
(* Bounds of the model *)

MaxInvestments == 2     \* investments ever inserted
MaxExitDetails == 2     \* exit records ever inserted
MaxTime == 7            \* no handler starts at or after this time
MaxUpdateTime == 2      \* the same, in the specification of updateInvestment alone
MaxExitTime == 6        \* the same, in the specification of updateExitDetails
MaxReadTime == 6        \* the same, in the specification with the queries
MaxCreateTime == 2      \* the same, in the specification of createInvestment alone
MaxSetupTime == 2       \* no handler run alone starts at or after this time, where requests
                        \* handled statement by statement, or the dashboard, follow
MaxLoads == 2           \* calls of loadInvestments

----------------------------------------------------------------------------
(* Values *)

Null == << >>
Some(v) == <<v>>

InvestmentStatus == {"Active", "Exited", "Written Off"}

InvestmentIds == 1..MaxInvestments
ExitDetailsIds == 1..MaxExitDetails

\* FLT_DIG of a 4-byte real column
RealDigits == 6

RECURSIVE Pow10(_)
Pow10(k) == IF k = 0 THEN 1 ELSE 10 * Pow10(k - 1)

RECURSIVE RealScale(_, _)
\* the smallest power of ten s with x < 10^RealDigits * s
RealScale(x, s) == IF x < Pow10(RealDigits) * s THEN s ELSE RealScale(x, s * 10)

\* a number written to a real column and read back
RealColumn(x) ==
    LET s == RealScale(x, 1)
    IN  ((x + (s \div 2)) \div s) * s

\* the text of a number (in thousandths) written to a numeric(15,2) column:
\* the column rounds to two decimal places, half away from zero
NumericColumn(x) == (x + 5) \div 10

\* parseFloat of the text of a numeric(15,2) column, in thousandths
ParseFloat(c) == c * 10

\* input.current_valuation ? input.current_valuation.toString() : null
NullableNumericColumn(v) ==
    IF v # Null /\ v[1] # 0 THEN Some(NumericColumn(v[1])) ELSE Null

\* the selected row returned as it is, the numeric columns still in their text form
InvestmentUnconverted(row) == row

\* the handlers' conversion of a selected investments row to the response
Investment(row) ==
    [row EXCEPT !.amount_invested = ParseFloat(@),
                !.current_valuation = IF @ # Null THEN Some(ParseFloat(@[1])) ELSE Null]

\* the handlers' conversion of a selected exit_details row to the response
ExitDetails(row) == [row EXCEPT !.proceeds_received = ParseFloat(@)]

----------------------------------------------------------------------------
(* Store statements *)

\* db.select().from(investmentsTable).where(eq(investmentsTable.id, id))
SelectInvestments(id) == {r \in investments : r.id = id}

\* db.select().from(exitDetailsTable).where(eq(exitDetailsTable.id, id))
SelectExitDetails(id) == {e \in exit_details : e.id = id}

\* db.select().from(exitDetailsTable).where(eq(exitDetailsTable.investment_id, id))
SelectExitDetailsByInvestment(id) == {e \in exit_details : e.investment_id = id}

\* a row with the columns named in values set to them
SetColumns(row, values) ==
    [f \in DOMAIN row |-> IF f \in DOMAIN values THEN values[f] ELSE row[f]]

\* db.update(investmentsTable).set(values).where(eq(investmentsTable.id, id))
UpdateInvestments(table, id, values) ==
    {IF r.id = id THEN SetColumns(r, values) ELSE r : r \in table}

----------------------------------------------------------------------------
(* Requests *)

NoCall == [op |-> "none", input |-> Null, outcome |-> "none", result |-> Null]

NoScenario == [stage |-> "none", investment_id |-> 0, exit_id |-> 0]

\* the callers whose requests are handled statement by statement, side by side
Callers == {"a", "b"}

\* a request under way: the handler and its input, the statement it awaits, the rows
\* its select and its insert returned, and how it ended
NoRequest ==
    [op |-> "none", input |-> Null, pc |-> "idle", selected |-> {}, inserted |-> {},
     outcome |-> "none", result |-> Null,
     statements |-> << >>,           \* history: the statements the store has executed for it
     parent_status |-> "none"]       \* history: the parent's stored status when its insert or
                                     \* its delete ran

\* function App() before its first effect: nothing fetched, no load under way
App ==
    [investments |-> << >>,          \* useState<Investment[]>([])
     exitDetails |-> << >>,          \* useState<Record<number, ExitDetails>>({})
     loads |-> << >>,                \* the calls of loadInvestments, in the order they began
     mounted |-> FALSE,
     submitted |-> Null,             \* the exit form handleCreateExit is working on
     mutated |-> FALSE]              \* history: a handler has written to the store since
                                     \* the load that began last began

\* a handler run from its first statement to its last with nothing in between: no
\* request is under way statement by statement, and the dashboard is not looking
Alone == UNCHANGED <<inflight, dashboard>>

Response(op, input, outcome, result) ==
    [op |-> op, input |-> input, outcome |-> outcome, result |-> result]

\* the tables as a request finds them
Snapshot == [investments |-> investments, exit_details |-> exit_details]

CreateInvestmentInputs ==
    { [company_name |-> "Acme", investment_date |-> 1, amount_invested |-> 100000,
       funding_round |-> "Seed", equity_percentage |-> 100000000,
       current_valuation |-> Null, status |-> "Active", notes |-> Null],
      [company_name |-> "Beta", investment_date |-> 2, amount_invested |-> 250500,
       funding_round |-> "Series A", equity_percentage |-> 250000000,
       current_valuation |-> Some(500000), status |-> "Exited", notes |-> Some("n1")],
      [company_name |-> "Acme", investment_date |-> 1, amount_invested |-> 100000,
       funding_round |-> "Bridge", equity_percentage |-> 1000000,
       current_valuation |-> Some(10), status |-> "Written Off", notes |-> Null] }

----------------------------------------------------------------------------
(* Handlers *)

Init ==
    /\ investments = {}
    /\ exit_details = {}
    /\ investments_id_seq = 0
    /\ exit_details_id_seq = 0
    /\ now = 0
    /\ call = NoCall
    /\ before = [investments |-> {}, exit_details |-> {}]
    /\ scenario = NoScenario
    /\ returned_ids = << >>
    /\ inflight = [c \in Callers |-> NoRequest]
    /\ dashboard = App

\* the id taken to be one more than the largest id stored
MaxInvestmentIdPlusOne ==
    IF investments = {} THEN 1
    ELSE 1 + (CHOOSE m \in {r.id : r \in investments} : \A r \in investments : r.id <= m)

\* nextval of the sequence behind the serial column investments.id
NextInvestmentId == investments_id_seq + 1

\* createInvestment giving an investment created as Exited an exit record of its own
createInvestmentWithExit(input) ==
    /\ now < MaxTime
    /\ before' = Snapshot
    /\ investments_id_seq < MaxInvestments
    /\ LET id == NextInvestmentId
           row == [id |-> id,
                   company_name |-> input.company_name,
                   investment_date |-> input.investment_date,
                   amount_invested |-> NumericColumn(input.amount_invested),
                   funding_round |-> input.funding_round,
                   equity_percentage |-> RealColumn(input.equity_percentage),
                   current_valuation |-> NullableNumericColumn(input.current_valuation),
                   status |-> input.status,
                   notes |-> input.notes,
                   created_at |-> now + 1,
                   updated_at |-> now + 1]
           exitDetails == [id |-> exit_details_id_seq + 1, investment_id |-> id,
                           exit_date |-> now, proceeds_received |-> 0, exit_multiple |-> 0,
                           notes |-> Null, created_at |-> now + 1]
       IN  /\ investments' = investments \cup {row}
           /\ investments_id_seq' = id
           /\ returned_ids' = Append(returned_ids, id)
           /\ IF input.status = "Exited" /\ exit_details_id_seq < MaxExitDetails
              THEN /\ exit_details' = exit_details \cup {exitDetails}
                   /\ exit_details_id_seq' = exit_details_id_seq + 1
              ELSE UNCHANGED <<exit_details, exit_details_id_seq>>
           /\ now' = now + 1
           /\ call' = Response("createInvestment", input, "ok", Some(Investment(row)))
           /\ scenario' = NoScenario

createInvestment(input) ==
    /\ now < MaxTime
    /\ before' = Snapshot
    /\ investments_id_seq < MaxInvestments
    /\ LET id == NextInvestmentId
           row == [id |-> id,
                   company_name |-> input.company_name,
                   investment_date |-> input.investment_date,
                   amount_invested |-> NumericColumn(input.amount_invested),
                   funding_round |-> input.funding_round,
                   equity_percentage |-> RealColumn(input.equity_percentage),
                   current_valuation |-> NullableNumericColumn(input.current_valuation),
                   status |-> input.status,
                   notes |-> input.notes,
                   created_at |-> now + 1,
                   updated_at |-> now + 1]
       IN  /\ investments' = investments \cup {row}
           /\ investments_id_seq' = id
           /\ returned_ids' = Append(returned_ids, id)
           /\ now' = now + 1
           /\ call' = Response("createInvestment", input, "ok", Some(Investment(row)))
           /\ scenario' = IF input.status = "Active"
                          THEN [stage |-> "created", investment_id |-> id, exit_id |-> 0]
                          ELSE NoScenario
    /\ UNCHANGED <<exit_details, exit_details_id_seq>>

\* UpdateValues with `if (input.f)` in place of `if (input.f !== undefined)`: a
\* supplied null is taken for a field that was not supplied
UpdateValuesWhenTruthy(input, t) ==
    [f \in {"updated_at"}
            \cup {g \in DOMAIN input \ {"id"} :
                     g \in {"current_valuation", "notes"} => input[g] # Null} |->
        CASE f = "updated_at" -> t
          [] f = "amount_invested" -> NumericColumn(input[f])
          [] f = "equity_percentage" -> RealColumn(input[f])
          [] f = "current_valuation" -> Some(NumericColumn(input[f][1]))
          [] OTHER -> input[f]]

\* the values updateInvestment sets: updated_at always, and each field the input holds
UpdateValues(input, t) ==
    [f \in {"updated_at"} \cup (DOMAIN input \ {"id"}) |->
        CASE f = "updated_at" -> t
          [] f = "amount_invested" -> NumericColumn(input[f])
          [] f = "equity_percentage" -> RealColumn(input[f])
          [] f = "current_valuation" ->
                IF input[f] # Null THEN Some(NumericColumn(input[f][1])) ELSE Null
          [] OTHER -> input[f]]

\* updateInvestment as its placeholder: a record made up from the input, found or not
updateInvestmentPlaceholder(input) ==
    /\ now < MaxTime
    /\ before' = Snapshot
    /\ now' = now + 1
    /\ call' = Response("updateInvestment", input, "ok",
                        Some([id |-> input.id, created_at |-> now, updated_at |-> now]))
    /\ scenario' = NoScenario
    /\ UNCHANGED <<investments, exit_details, investments_id_seq, exit_details_id_seq, returned_ids>>

updateInvestment(input) ==
    /\ now < MaxTime
    /\ before' = Snapshot
    /\ LET existingInvestment == SelectInvestments(input.id)
       IN  IF existingInvestment = {}
           THEN /\ now' = now + 1
                /\ call' = Response("updateInvestment", input, "NotFound", Null)
                /\ UNCHANGED investments
           ELSE LET updateValues == UpdateValues(input, now + 1)
                    table == UpdateInvestments(investments, input.id, updateValues)
                    result == {r \in table : r.id = input.id}
                IN  /\ investments' = table
                    /\ now' = now + 2
                    /\ call' = Response("updateInvestment", input, "ok",
                                        Some(Investment(CHOOSE r \in result : TRUE)))
    /\ scenario' = NoScenario
    /\ UNCHANGED <<exit_details, investments_id_seq, exit_details_id_seq, returned_ids>>

\* success whatever the row count
SuccessAlways(rowCount) == TRUE

\* result.rowCount > 0
Success(rowCount) == rowCount > 0

\* a foreign key without the cascade
CascadeNone(table, deleted) == table

\* references(() => investmentsTable.id, { onDelete: 'cascade' }): the exit_details
\* rows left when the investments rows `deleted` go
CascadeExitDetails(table, deleted) ==
    {e \in table : \A r \in deleted : r.id # e.investment_id}

deleteInvestment(input) ==
    /\ now < MaxTime
    /\ before' = Snapshot
    /\ LET deleted == SelectInvestments(input.id)
       IN  /\ investments' = investments \ deleted
           /\ exit_details' = CascadeExitDetails(exit_details, deleted)
           /\ call' = Response("deleteInvestment", input, "ok",
                               Some([success |-> Success(Cardinality(deleted))]))
    /\ now' = now + 1
    /\ scenario' = NoScenario
    /\ UNCHANGED <<investments_id_seq, exit_details_id_seq, returned_ids>>

\* the existence check without its where clause
AnyInvestments(input) == investments

\* the rows createExitDetails selects to see that the investment exists
ExistingInvestments(input) == SelectInvestments(input.investment_id)

\* the status update for Active investments only
StatusUpdateNeededWhenActive(investment) == investment.status = "Active"

\* the status update without its guard
StatusUpdateAlways(investment) == TRUE

\* investment.status !== 'Exited'
StatusUpdateNeeded(investment) == investment.status # "Exited"

createExitDetails(input) ==
    /\ now < MaxTime
    /\ before' = Snapshot
    /\ LET existingInvestments == ExistingInvestments(input)
       IN  IF existingInvestments = {}
           THEN /\ now' = now + 1
                /\ call' = Response("createExitDetails", input, "NotFound", Null)
                /\ scenario' = NoScenario
                /\ UNCHANGED <<investments, exit_details, exit_details_id_seq>>
           ELSE LET id == exit_details_id_seq + 1
                    exitDetails == [id |-> id,
                                    investment_id |-> input.investment_id,
                                    exit_date |-> input.exit_date,
                                    proceeds_received |-> NumericColumn(input.proceeds_received),
                                    exit_multiple |-> RealColumn(input.exit_multiple),
                                    notes |-> input.notes,
                                    created_at |-> now + 2]
                    investment == CHOOSE r \in existingInvestments : TRUE
                IN  /\ exit_details_id_seq < MaxExitDetails
                    /\ exit_details' = exit_details \cup {exitDetails}
                    /\ exit_details_id_seq' = id
                    /\ IF StatusUpdateNeeded(investment)
                       THEN /\ investments' = UpdateInvestments(investments, input.investment_id,
                                                  [status |-> "Exited", updated_at |-> now + 2])
                            /\ now' = now + 3
                       ELSE /\ UNCHANGED investments
                            /\ now' = now + 2
                    /\ call' = Response("createExitDetails", input, "ok",
                                        Some(ExitDetails(exitDetails)))
                    /\ scenario' = IF /\ scenario.stage = "created"
                                      /\ scenario.investment_id = input.investment_id
                                   THEN [stage |-> "exited", investment_id |-> input.investment_id,
                                         exit_id |-> id]
                                   ELSE NoScenario
    /\ UNCHANGED <<investments_id_seq, returned_ids>>

\* the reset as the comment above it has it: "back to Active if it was Exited"
ResetStatusIfExited(table, investmentId, t) ==
    {IF r.id = investmentId /\ r.status = "Exited"
     THEN SetColumns(r, [status |-> "Active", updated_at |-> t])
     ELSE r : r \in table}

\* no reset at all
ResetStatusOmitted(table, investmentId, t) == table

\* the update deleteExitDetails ends with: the parent investment becomes Active
ResetStatus(table, investmentId, t) ==
    UpdateInvestments(table, investmentId, [status |-> "Active", updated_at |-> t])

\* deleteExitDetails as its placeholder: success, whatever the store holds
deleteExitDetailsPlaceholder(input) ==
    /\ now < MaxTime
    /\ before' = Snapshot
    /\ now' = now + 1
    /\ call' = Response("deleteExitDetails", input, "ok", Some([success |-> TRUE]))
    /\ scenario' = NoScenario
    /\ UNCHANGED <<investments, exit_details, investments_id_seq, exit_details_id_seq, returned_ids>>

deleteExitDetails(input) ==
    /\ now < MaxTime
    /\ before' = Snapshot
    /\ LET exitDetails == SelectExitDetails(input.id)
       IN  IF exitDetails = {}
           THEN /\ now' = now + 1
                /\ call' = Response("deleteExitDetails", input, "NotFound", Null)
                /\ scenario' = NoScenario
                /\ UNCHANGED <<investments, exit_details>>
           ELSE LET investmentId == (CHOOSE e \in exitDetails : TRUE).investment_id
                    deleteResult == SelectExitDetails(input.id)
                IN  /\ exit_details' = exit_details \ deleteResult
                    /\ IF deleteResult = {}
                       THEN /\ now' = now + 2
                            /\ call' = Response("deleteExitDetails", input, "Failed", Null)
                            /\ scenario' = NoScenario
                            /\ UNCHANGED investments
                       ELSE /\ investments' = ResetStatus(investments, investmentId, now + 2)
                            /\ now' = now + 3
                            /\ call' = Response("deleteExitDetails", input, "ok",
                                                Some([success |-> TRUE]))
                            /\ scenario' = IF /\ scenario.stage = "exited"
                                              /\ scenario.exit_id = input.id
                                           THEN [scenario EXCEPT !.stage = "deleted"]
                                           ELSE NoScenario
    /\ UNCHANGED <<investments_id_seq, exit_details_id_seq, returned_ids>>

\* db.update(exitDetailsTable).set(values).where(eq(exitDetailsTable.id, id))
UpdateExitDetails(table, id, values) ==
    {IF e.id = id THEN SetColumns(e, values) ELSE e : e \in table}

\* updateData built with `if (input.f)` in place of `if (input.f !== undefined)`: a
\* supplied null or zero is taken for a field that was not supplied
UpdateDataWhenTruthy(input) ==
    [f \in {g \in DOMAIN input \ {"id"} :
               /\ g = "notes" => input[g] # Null
               /\ g = "proceeds_received" => input[g] # 0} |->
        CASE f = "proceeds_received" -> NumericColumn(input[f])
          [] f = "exit_multiple" -> RealColumn(input[f])
          [] OTHER -> input[f]]

\* updateData: each field the input holds, as the columns take it
UpdateData(input) ==
    [f \in DOMAIN input \ {"id"} |->
        CASE f = "proceeds_received" -> NumericColumn(input[f])
          [] f = "exit_multiple" -> RealColumn(input[f])
          [] OTHER -> input[f]]

\* updateExitDetails as its placeholder: a record made up from the input, found or not
updateExitDetailsPlaceholder(input) ==
    /\ now < MaxTime
    /\ before' = Snapshot
    /\ now' = now + 1
    /\ call' = Response("updateExitDetails", input, "ok",
                        Some([id |-> input.id, investment_id |-> 0, created_at |-> now]))
    /\ scenario' = NoScenario
    /\ UNCHANGED <<investments, exit_details, investments_id_seq, exit_details_id_seq, returned_ids>>

\* updateExitDetails ending as createExitDetails and deleteExitDetails do, with an
\* update of the parent investment
updateExitDetailsTouchingParent(input) ==
    /\ now < MaxTime
    /\ before' = Snapshot
    /\ LET existingRecord == SelectExitDetails(input.id)
           updateData == UpdateData(input)
       IN  IF existingRecord = {}
           THEN /\ now' = now + 1
                /\ call' = Response("updateExitDetails", input, "NotFound", Null)
                /\ UNCHANGED <<investments, exit_details>>
           ELSE LET table == UpdateExitDetails(exit_details, input.id, updateData)
                    result == {e \in table : e.id = input.id}
                    parent == (CHOOSE e \in result : TRUE).investment_id
                IN  /\ exit_details' = table
                    /\ investments' = UpdateInvestments(investments, parent,
                                                        [updated_at |-> now + 2])
                    /\ now' = now + 3
                    /\ call' = Response("updateExitDetails", input, "ok",
                                        Some(ExitDetails(CHOOSE e \in result : TRUE)))
    /\ scenario' = NoScenario
    /\ UNCHANGED <<investments_id_seq, exit_details_id_seq, returned_ids>>

\* The update statement is built from updateData; with no field in it there is no
\* SET clause to send, and set() gives an error in place of a statement.
updateExitDetails(input) ==
    /\ now < MaxTime
    /\ before' = Snapshot
    /\ LET existingRecord == SelectExitDetails(input.id)
           updateData == UpdateData(input)
       IN  IF existingRecord = {}
           THEN /\ now' = now + 1
                /\ call' = Response("updateExitDetails", input, "NotFound", Null)
                /\ UNCHANGED exit_details
           ELSE IF DOMAIN updateData = {}
           THEN /\ now' = now + 1
                /\ call' = Response("updateExitDetails", input, "Failed", Null)
                /\ UNCHANGED exit_details
           ELSE LET table == UpdateExitDetails(exit_details, input.id, updateData)
                    result == {e \in table : e.id = input.id}
                IN  /\ exit_details' = table
                    /\ now' = now + 2
                    /\ call' = Response("updateExitDetails", input, "ok",
                                        Some(ExitDetails(CHOOSE e \in result : TRUE)))
    /\ scenario' = NoScenario
    /\ UNCHANGED <<investments, investments_id_seq, exit_details_id_seq, returned_ids>>

----------------------------------------------------------------------------
(* Reads, as functions of the store *)

\* getInvestmentById without its where clause
getInvestmentByIdAnyRow(id) ==
    IF investments = {} THEN Null ELSE Some(Investment(CHOOSE r \in investments : TRUE))

\* getExitDetailsByInvestmentId as its placeholder
getExitDetailsByInvestmentIdPlaceholder(investment_id) == {Null}

\* the response of getInvestmentById
getInvestmentById(id) ==
    LET result == SelectInvestments(id)
    IN  IF result = {} THEN Null ELSE Some(Investment(CHOOSE r \in result : TRUE))

\* the responses getExitDetailsByInvestmentId can give: results[0] of a select
\* without an order
getExitDetailsByInvestmentId(investment_id) ==
    LET results == SelectExitDetailsByInvestment(investment_id)
    IN  IF results = {} THEN {Null} ELSE {Some(ExitDetails(e)) : e \in results}

\* the select without its orderBy
OrderByNothing(rows) ==
    {s \in [1..Cardinality(rows) -> rows] : \A i, j \in DOMAIN s : i # j => s[i] # s[j]}

\* every order of the rows that orderBy(desc(created_at)) can return them in: rows of
\* equal created_at come in any order
OrderByCreatedAtDesc(rows) ==
    {s \in [1..Cardinality(rows) -> rows] :
        /\ \A i, j \in DOMAIN s : i # j => s[i] # s[j]
        /\ \A i, j \in DOMAIN s : i < j => s[i].created_at >= s[j].created_at}

\* the responses getInvestments can give
getInvestments ==
    {[i \in DOMAIN results |-> Investment(results[i])] :
        results \in OrderByCreatedAtDesc(investments)}

\* The queries of the router.  A query is one select; it takes its tick and leaves
\* the tables alone.
getInvestmentsQuery ==
    /\ now < MaxTime
    /\ before' = Snapshot
    /\ now' = now + 1
    /\ \E result \in getInvestments :
          call' = Response("getInvestments", Null, "ok", result)
    /\ UNCHANGED <<investments, exit_details, investments_id_seq, exit_details_id_seq,
                   scenario, returned_ids>>

getInvestmentByIdQuery(input) ==
    /\ now < MaxTime
    /\ before' = Snapshot
    /\ now' = now + 1
    /\ call' = Response("getInvestmentById", input, "ok", getInvestmentById(input.id))
    /\ UNCHANGED <<investments, exit_details, investments_id_seq, exit_details_id_seq,
                   scenario, returned_ids>>

getExitDetailsByInvestmentIdQuery(input) ==
    /\ now < MaxTime
    /\ before' = Snapshot
    /\ now' = now + 1
    /\ \E result \in getExitDetailsByInvestmentId(input.investment_id) :
          call' = Response("getExitDetailsByInvestmentId", input, "ok", result)
    /\ UNCHANGED <<investments, exit_details, investments_id_seq, exit_details_id_seq,
                   scenario, returned_ids>>

----------------------------------------------------------------------------
(* Handlers, statement by statement.  The store executes one statement at a time; *)
(* between two statements of one request the statements of another may run.       *)

\* caller c's request goes on to await statement pc, having had `statement` executed
Await(c, pc, statement, fields) ==
    inflight' = [inflight EXCEPT ![c] =
        [f \in DOMAIN @ |->
            CASE f = "pc" -> pc
              [] f = "statements" -> Append(@.statements, statement)
              [] f \in DOMAIN fields -> fields[f]
              [] OTHER -> @[f]]]

\* caller c's request ends
Return(c, statement, outcome, result) ==
    Await(c, "done", statement, [outcome |-> outcome, result |-> result])

Begun(c, op, input) == [NoRequest EXCEPT !.op = op, !.input = input]

\* a table without the foreign key
ViolatesNothing(investment_id) == FALSE

\* an insert into exit_details of a row whose investment_id matches no investments
\* row: the foreign key refuses it
ViolatesForeignKey(investment_id) == SelectInvestments(investment_id) = {}

\* the status the store holds for an investment
StoredStatus(id) ==
    IF SelectInvestments(id) = {} THEN "none"
    ELSE (CHOOSE r \in SelectInvestments(id) : TRUE).status

\* createExitDetails, lines 9-16: the select and the not-found test
createExitDetailsSelect(c, input) ==
    /\ inflight[c].pc = "idle"
    /\ LET existingInvestments == ExistingInvestments(input)
           request == Begun(c, "createExitDetails", input)
       IN  IF existingInvestments = {}
           THEN inflight' = [inflight EXCEPT ![c] =
                    [request EXCEPT !.pc = "done", !.statements = <<"select">>,
                                    !.outcome = "NotFound"]]
           ELSE inflight' = [inflight EXCEPT ![c] =
                    [request EXCEPT !.pc = "insert", !.statements = <<"select">>,
                                    !.selected = existingInvestments]]
    /\ now' = now + 1
    /\ UNCHANGED <<investments, exit_details, investments_id_seq, exit_details_id_seq>>

\* lines 33-34: the guard of the status update, put to the row the select returned
StatusUpdateNeededThen(request) ==
    StatusUpdateNeeded(CHOOSE r \in request.selected : TRUE)

\* lines 19-30: the insert; then either the update is due or the handler returns
createExitDetailsInsert(c) ==
    /\ inflight[c].op = "createExitDetails"
    /\ inflight[c].pc = "insert"
    /\ LET input == inflight[c].input
           id == exit_details_id_seq + 1
           exitDetails == [id |-> id,
                           investment_id |-> input.investment_id,
                           exit_date |-> input.exit_date,
                           proceeds_received |-> NumericColumn(input.proceeds_received),
                           exit_multiple |-> RealColumn(input.exit_multiple),
                           notes |-> input.notes,
                           created_at |-> now + 1]
       IN  IF ViolatesForeignKey(input.investment_id)
           THEN /\ Return(c, "insert", "Unexpected", Null)
                /\ UNCHANGED <<exit_details, exit_details_id_seq>>
           ELSE /\ exit_details_id_seq < MaxExitDetails
                /\ exit_details' = exit_details \cup {exitDetails}
                /\ exit_details_id_seq' = id
                /\ LET status == [parent_status |-> StoredStatus(input.investment_id),
                                  inserted |-> {exitDetails}]
                   IN  IF StatusUpdateNeededThen(inflight[c])
                       THEN Await(c, "update", "insert", status)
                       ELSE Await(c, "done", "insert",
                                  [f \in DOMAIN status \cup {"outcome", "result"} |->
                                      CASE f = "outcome" -> "ok"
                                        [] f = "result" -> Some(ExitDetails(exitDetails))
                                        [] OTHER -> status[f]])
    /\ now' = now + 1
    /\ UNCHANGED <<investments, investments_id_seq>>

\* lines 35-48: the status update, and the return
createExitDetailsUpdate(c) ==
    /\ inflight[c].op = "createExitDetails"
    /\ inflight[c].pc = "update"
    /\ investments' = UpdateInvestments(investments, inflight[c].input.investment_id,
                                        [status |-> "Exited", updated_at |-> now])
    /\ Return(c, "update", "ok", Some(ExitDetails(CHOOSE e \in inflight[c].inserted : TRUE)))
    /\ now' = now + 1
    /\ UNCHANGED <<exit_details, investments_id_seq, exit_details_id_seq>>

\* deleteInvestment is one statement
deleteInvestmentDelete(c, input) ==
    /\ inflight[c].pc = "idle"
    /\ LET deleted == SelectInvestments(input.id)
       IN  /\ investments' = investments \ deleted
           /\ exit_details' = CascadeExitDetails(exit_details, deleted)
           /\ inflight' = [inflight EXCEPT ![c] =
                  [Begun(c, "deleteInvestment", input) EXCEPT
                      !.pc = "done", !.statements = <<"delete">>, !.outcome = "ok",
                      !.result = Some([success |-> Success(Cardinality(deleted))])]]
    /\ now' = now + 1
    /\ UNCHANGED <<investments_id_seq, exit_details_id_seq>>

\* updateInvestment, lines 9-16: the select and the not-found test
updateInvestmentSelect(c, input) ==
    /\ inflight[c].pc = "idle"
    /\ LET existingInvestment == SelectInvestments(input.id)
           request == Begun(c, "updateInvestment", input)
       IN  IF existingInvestment = {}
           THEN inflight' = [inflight EXCEPT ![c] =
                    [request EXCEPT !.pc = "done", !.statements = <<"select">>,
                                    !.outcome = "NotFound"]]
           ELSE inflight' = [inflight EXCEPT ![c] =
                    [request EXCEPT !.pc = "update", !.statements = <<"select">>,
                                    !.selected = existingInvestment]]
    /\ now' = now + 1
    /\ UNCHANGED <<investments, exit_details, investments_id_seq, exit_details_id_seq>>

\* lines 56-61: result[0] is undefined when the update returned no row, and reading
\* investment.amount_invested throws a TypeError
NoRowReturned == "TypeError"

\* lines 19-61: the update returning the row, and the return
updateInvestmentUpdate(c) ==
    /\ inflight[c].op = "updateInvestment"
    /\ inflight[c].pc = "update"
    /\ LET input == inflight[c].input
           table == UpdateInvestments(investments, input.id, UpdateValues(input, now))
           result == {r \in table : r.id = input.id}
       IN  /\ investments' = table
           /\ IF result = {}
              THEN Return(c, "update", NoRowReturned, Null)
              ELSE Return(c, "update", "ok", Some(Investment(CHOOSE r \in result : TRUE)))
    /\ now' = now + 1
    /\ UNCHANGED <<exit_details, investments_id_seq, exit_details_id_seq>>

\* deleteExitDetails, lines 9-18: the select and the not-found test
deleteExitDetailsSelect(c, input) ==
    /\ inflight[c].pc = "idle"
    /\ LET exitDetails == SelectExitDetails(input.id)
           request == Begun(c, "deleteExitDetails", input)
       IN  IF exitDetails = {}
           THEN inflight' = [inflight EXCEPT ![c] =
                    [request EXCEPT !.pc = "done", !.statements = <<"select">>,
                                    !.outcome = "NotFound"]]
           ELSE inflight' = [inflight EXCEPT ![c] =
                    [request EXCEPT !.pc = "delete", !.statements = <<"select">>,
                                    !.selected = exitDetails]]
    /\ now' = now + 1
    /\ UNCHANGED <<investments, exit_details, investments_id_seq, exit_details_id_seq>>

\* success also for a delete that removed no row
DeletedNothingIsSuccess(deleteResult) == FALSE

\* lines 26-28: deleteResult.length === 0
DeletedNothing(deleteResult) == deleteResult = {}

\* lines 21-28: the delete returning the rows it removed
deleteExitDetailsDelete(c) ==
    /\ inflight[c].op = "deleteExitDetails"
    /\ inflight[c].pc = "delete"
    /\ LET deleteResult == SelectExitDetails(inflight[c].input.id)
       IN  /\ exit_details' = exit_details \ deleteResult
           /\ IF DeletedNothing(deleteResult)
              THEN Return(c, "delete", "Failed", Null)
              ELSE Await(c, "update", "delete",
                         [parent_status |->
                             StoredStatus((CHOOSE e \in inflight[c].selected : TRUE).investment_id)])
    /\ now' = now + 1
    /\ UNCHANGED <<investments, investments_id_seq, exit_details_id_seq>>

\* lines 31-39: the reset of the parent's status, and the return
deleteExitDetailsUpdate(c) ==
    /\ inflight[c].op = "deleteExitDetails"
    /\ inflight[c].pc = "update"
    /\ investments' = ResetStatus(investments,
                                  (CHOOSE e \in inflight[c].selected : TRUE).investment_id, now)
    /\ Return(c, "update", "ok", Some([success |-> TRUE]))
    /\ now' = now + 1
    /\ UNCHANGED <<exit_details, investments_id_seq, exit_details_id_seq>>

\* a failure of the store undone, as inside a transaction: the rows the request
\* inserted go, the rows it deleted come back
RolledBack(c) ==
    (exit_details \ inflight[c].inserted)
        \cup (IF inflight[c].op = "deleteExitDetails" /\ inflight[c].pc = "update"
              THEN inflight[c].selected ELSE {})

\* exit_details after the store failed in a statement of caller c's request: no
\* handler opens a transaction, so what its earlier statements did stays
AfterFailure(c) == exit_details

\* the store fails in a statement after the first one of a request: the handler's
\* catch logs the error and throws it on
storeFails(c) ==
    /\ inflight[c].pc \in {"insert", "update", "delete"}
    /\ exit_details' = AfterFailure(c)
    /\ Return(c, "failed", "Unexpected", Null)
    /\ now' = now + 1
    /\ UNCHANGED <<investments, investments_id_seq, exit_details_id_seq>>

----------------------------------------------------------------------------
(* The dashboard.  A fetch is a request that the server answers at one moment and *)
(* whose response the dashboard receives at a later one; the calls of             *)
(* loadInvestments under way take their steps in any order.                       *)

\* what the dashboard steps leave alone when no request reaches the server
Client ==
    UNCHANGED <<investments, exit_details, investments_id_seq, exit_details_id_seq,
                now, call, before, scenario, returned_ids, inflight>>

\* a call of loadInvestments as it begins: its getInvestments query is sent
loadInvestments ==
    [pc |-> "getInvestments",
     response |-> Null, error |-> FALSE,  \* the response on its way to the dashboard
     result |-> << >>,                    \* const result, line 23
     next |-> 0,                          \* the place in result the for loop is at
     exitDetailsMap |-> << >>,            \* line 27
     failed |-> {},                       \* history: the investments whose fetch threw
     presented |-> FALSE]                 \* history: setExitDetails(exitDetailsMap) ran

\* { ...prev, [key]: value }
Spread(prev, key, value) ==
    [k \in DOMAIN prev \cup {key} |-> IF k = key THEN value ELSE prev[k]]

LoadsUnderWay == {l \in DOMAIN dashboard.loads : dashboard.loads[l].pc # "done"}

\* useEffect(() => { loadInvestments(); }): the load on mount
mount ==
    /\ ~dashboard.mounted
    /\ dashboard' = [dashboard EXCEPT !.mounted = TRUE,
                                      !.loads = Append(@, loadInvestments),
                                      !.mutated = FALSE]
    /\ Client

\* what a fetch leaves alone: a query is one select, which takes its tick
Fetch ==
    /\ now' = now + 1
    /\ UNCHANGED <<investments, exit_details, investments_id_seq, exit_details_id_seq,
                   call, before, scenario, returned_ids, inflight>>

\* the server answers trpc.getInvestments.query() of load l
getInvestmentsResponds(l) ==
    /\ dashboard.loads[l].pc = "getInvestments"
    /\ \E result \in getInvestments :
          dashboard' = [dashboard EXCEPT !.loads[l].pc = "investments",
                                         !.loads[l].response = result]
    /\ Fetch

\* the server answers getExitDetailsByInvestmentId for the investment the loop is at
getExitDetailsResponds(l) ==
    /\ dashboard.loads[l].pc = "getExitDetails"
    /\ LET investment == dashboard.loads[l].result[dashboard.loads[l].next]
       IN  \E result \in getExitDetailsByInvestmentId(investment.id) :
              dashboard' = [dashboard EXCEPT !.loads[l].pc = "exitDetails",
                                             !.loads[l].response = result]
    /\ Fetch

\* a fetch of load l fails: the query rejects
fetchFails(l) ==
    /\ dashboard.loads[l].pc \in {"getInvestments", "getExitDetails"}
    /\ dashboard' = [dashboard EXCEPT
          !.loads[l].pc = IF @ = "getInvestments" THEN "investments" ELSE "exitDetails",
          !.loads[l].response = Null,
          !.loads[l].error = TRUE]
    /\ Client

\* lines 23-27 and 40-42: the response of getInvestments arrives.  A rejection goes to
\* the outer catch, which logs it; a result is shown and the loop begins, and ends at
\* once over an empty result.
loadReceivesInvestments(l) ==
    /\ dashboard.loads[l].pc = "investments"
    /\ LET load == dashboard.loads[l]
           result == load.response
       IN  IF load.error
           THEN dashboard' = [dashboard EXCEPT !.loads[l].pc = "done"]
           ELSE IF Len(result) = 0
           THEN dashboard' = [dashboard EXCEPT
                    !.investments = result,
                    !.exitDetails = load.exitDetailsMap,
                    !.loads[l] = [load EXCEPT !.pc = "done", !.result = result,
                                              !.response = Null, !.presented = TRUE]]
           ELSE dashboard' = [dashboard EXCEPT
                    !.investments = result,
                    !.loads[l] = [load EXCEPT !.pc = "getExitDetails", !.result = result,
                                              !.response = Null, !.next = 1]]
    /\ Client

\* lines 28-39: the response for one investment arrives.  An exit record goes into the
\* map; null leaves the map; a rejection is caught inside the loop, logged as "No
\* exit details found" and the loop goes on.  After the last investment the map is
\* shown.
loadReceivesExitDetails(l) ==
    /\ dashboard.loads[l].pc = "exitDetails"
    /\ LET load == dashboard.loads[l]
           investment == load.result[load.next]
           exitDetail == load.response
           exitDetailsMap == IF ~load.error /\ exitDetail # Null
                             THEN Spread(load.exitDetailsMap, investment.id, exitDetail[1])
                             ELSE load.exitDetailsMap
           failed == IF load.error THEN load.failed \cup {investment.id} ELSE load.failed
       IN  IF load.next < Len(load.result)
           THEN dashboard' = [dashboard EXCEPT
                    !.loads[l] = [load EXCEPT !.pc = "getExitDetails", !.next = @ + 1,
                                              !.response = Null, !.error = FALSE,
                                              !.exitDetailsMap = exitDetailsMap,
                                              !.failed = failed]]
           ELSE dashboard' = [dashboard EXCEPT
                    !.exitDetails = exitDetailsMap,
                    !.loads[l] = [load EXCEPT !.pc = "done",
                                              !.response = Null, !.error = FALSE,
                                              !.exitDetailsMap = exitDetailsMap,
                                              !.failed = failed, !.presented = TRUE]]
    /\ Client

\* handleCreateInvestment, lines 49-60: the response is put at the end of the list
handleCreateInvestment(data) ==
    /\ dashboard.mounted
    /\ dashboard.submitted = Null
    /\ createInvestment(data)
    /\ dashboard' = [dashboard EXCEPT
          !.investments = IF call'.outcome = "ok" THEN Append(@, call'.result[1]) ELSE @,
          !.mutated = TRUE]
    /\ UNCHANGED inflight

\* the investments whose "Record Exit" button the dashboard shows (line 264 and the
\* list of the active ones, line 356)
Exitable ==
    {dashboard.investments[i].id : i \in {j \in DOMAIN dashboard.investments :
                                             dashboard.investments[j].status = "Active"}}

\* handleCreateExit, lines 62-69: createExitDetails, and its response put into the map
\* under the investment's id; a failure goes to the catch
handleCreateExit(data) ==
    /\ dashboard.mounted
    /\ dashboard.submitted = Null
    /\ data.investment_id \in Exitable
    /\ createExitDetails(data)
    /\ dashboard' = [dashboard EXCEPT
          !.exitDetails = IF call'.outcome = "ok"
                          THEN Spread(@, data.investment_id, call'.result[1]) ELSE @,
          !.submitted = IF call'.outcome = "ok" THEN Some(data) ELSE Null,
          !.mutated = TRUE]
    /\ UNCHANGED inflight

\* lines 71-78: the status update, and after it a call of loadInvestments that is not
\* awaited
handleCreateExitUpdate ==
    /\ dashboard.submitted # Null
    /\ Len(dashboard.loads) < MaxLoads
    /\ updateInvestment([id |-> dashboard.submitted[1].investment_id, status |-> "Exited"])
    /\ dashboard' = [dashboard EXCEPT
          !.loads = IF call'.outcome = "ok" THEN Append(@, loadInvestments) ELSE @,
          !.mutated = call'.outcome # "ok",
          !.submitted = Null]
    /\ UNCHANGED inflight

\* Calculate portfolio metrics, lines 114-122
RECURSIVE reduce(_)
reduce(amounts) ==
    IF Len(amounts) = 0 THEN 0 ELSE amounts[1] + reduce(Tail(amounts))

totalInvested ==
    reduce([i \in DOMAIN dashboard.investments |-> dashboard.investments[i].amount_invested])

\* inv.current_valuation || inv.amount_invested: null and 0 are falsy
OrAmountInvested(inv) ==
    IF inv.current_valuation = Null \/ inv.current_valuation = Some(0)
    THEN inv.amount_invested
    ELSE inv.current_valuation[1]

totalCurrentValue ==
    reduce([i \in DOMAIN dashboard.investments |->
        LET inv == dashboard.investments[i]
        IN  IF inv.id \in DOMAIN dashboard.exitDetails
            THEN dashboard.exitDetails[inv.id].proceeds_received
            ELSE OrAmountInvested(inv)])

RECURSIVE reduceValues(_, _)
reduceValues(object, keys) ==
    IF keys = {} THEN 0
    ELSE LET k == CHOOSE key \in keys : TRUE
         IN  object[k].proceeds_received + reduceValues(object, keys \ {k})

\* Object.values(exitDetails).reduce(...)
totalRealized == reduceValues(dashboard.exitDetails, DOMAIN dashboard.exitDetails)

----------------------------------------------------------------------------
(* Inputs *)

IdInputs == {[id |-> i] : i \in InvestmentIds}

ExitIdInputs == {[id |-> i] : i \in ExitDetailsIds}

CreateExitDetailsInputs ==
    { [investment_id |-> i, exit_date |-> 3, proceeds_received |-> 250000,
       exit_multiple |-> 25000000, notes |-> Null] : i \in InvestmentIds }
    \cup
    { [investment_id |-> i, exit_date |-> 4, proceeds_received |-> 0,
       exit_multiple |-> 15000000, notes |-> Some("Successful exit")] : i \in InvestmentIds }

MutableFields ==
    {"company_name", "investment_date", "amount_invested", "funding_round",
     "equity_percentage", "current_valuation", "status", "notes"}

\* two values per field; the second with three decimal places in the amounts, more
\* digits than a real holds in the percentage, and null where null is allowed
FieldValue(f, v) ==
    CASE f = "company_name" -> IF v = 1 THEN "Acme" ELSE "Gamma"
      [] f = "investment_date" -> IF v = 1 THEN 1 ELSE 5
      [] f = "amount_invested" -> IF v = 1 THEN 750250 ELSE 1005
      [] f = "funding_round" -> IF v = 1 THEN "Seed" ELSE "Series B"
      [] f = "equity_percentage" -> IF v = 1 THEN 125000000 ELSE 333333333
      [] f = "current_valuation" -> IF v = 1 THEN Some(900000) ELSE Null
      [] f = "status" -> IF v = 1 THEN "Active" ELSE "Exited"
      [] f = "notes" -> IF v = 1 THEN Some("n2") ELSE Null

UpdateInput(id, fields, v) ==
    [f \in {"id"} \cup fields |-> IF f = "id" THEN id ELSE FieldValue(f, v)]

\* every subset of the mutable fields
AllUpdateInvestmentInputs ==
    {UpdateInput(i, fields, v) : i \in InvestmentIds, fields \in SUBSET MutableFields, v \in {1, 2}}

\* the updates the full specification draws from
UpdateInvestmentInputs ==
    {UpdateInput(i, {}, 1) : i \in InvestmentIds}
    \cup {[id |-> i, status |-> s] : i \in InvestmentIds, s \in InvestmentStatus}
    \cup {UpdateInput(i, {"current_valuation", "notes"}, 2) : i \in InvestmentIds}

ExitMutableFields == {"exit_date", "proceeds_received", "exit_multiple", "notes"}

\* two values per field; the second with three decimal places in the proceeds, more
\* digits than a real holds in the multiple, and null notes
ExitFieldValue(f, v) ==
    CASE f = "exit_date" -> IF v = 1 THEN 6 ELSE 7
      [] f = "proceeds_received" -> IF v = 1 THEN 300000 ELSE 1005
      [] f = "exit_multiple" -> IF v = 1 THEN 30000000 ELSE 333333333
      [] f = "notes" -> IF v = 1 THEN Some("n3") ELSE Null

UpdateExitInput(id, fields, v) ==
    [f \in {"id"} \cup fields |-> IF f = "id" THEN id ELSE ExitFieldValue(f, v)]

\* every subset of the fields of an exit record that can be updated, with the first
\* values; each field alone and all fields together, with the second values
UpdateExitDetailsInputs ==
    {UpdateExitInput(i, fields, 1) : i \in ExitDetailsIds, fields \in SUBSET ExitMutableFields}
    \cup {UpdateExitInput(i, {f}, 2) : i \in ExitDetailsIds, f \in ExitMutableFields}
    \cup {UpdateExitInput(i, ExitMutableFields, 2) : i \in ExitDetailsIds}

\* the status updates the specification of updateExitDetails draws from
UpdateStatusInputs == {[id |-> i, status |-> "Active"] : i \in InvestmentIds}

InvestmentIdInputs == {[investment_id |-> i] : i \in InvestmentIds}

\* creation inputs over amounts of two and of three decimal places, percentages of
\* up to and of more than the digits a real holds, and valuations present and absent
AllCreateInvestmentInputs ==
    {[company_name |-> "Acme", investment_date |-> 1, amount_invested |-> a,
      funding_round |-> "Seed", equity_percentage |-> e, current_valuation |-> c,
      status |-> sn[1], notes |-> sn[2]] :
        a \in {100000, 10, 1005},
        e \in {1000000, 125000000, 333333333},
        c \in {Null, Some(999990), Some(1005)},
        sn \in {<<"Active", Null>>, <<"Exited", Some("n1")>>}}

\* the exits the requests handled statement by statement ask for
StepCreateExitDetailsInputs == {input \in CreateExitDetailsInputs : input.notes = Null}

\* the investments the dashboard meets: a valuation that is not known, one that the
\* column rounds to 0.00, and one of a larger amount
DashboardInvestmentInputs ==
    {[company_name |-> "Acme", investment_date |-> 1, amount_invested |-> a,
      funding_round |-> "Seed", equity_percentage |-> 100000000, current_valuation |-> c,
      status |-> "Active", notes |-> Null] :
        a \in {100000}, c \in {Null, Some(4), Some(500000)}}

----------------------------------------------------------------------------
(* Specifications *)

Next ==
    \/ \E input \in CreateInvestmentInputs : createInvestment(input) /\ Alone
    \/ \E input \in UpdateInvestmentInputs : updateInvestment(input) /\ Alone
    \/ \E input \in IdInputs : deleteInvestment(input) /\ Alone
    \/ \E input \in CreateExitDetailsInputs : createExitDetails(input) /\ Alone
    \/ \E input \in ExitIdInputs : deleteExitDetails(input) /\ Alone

Spec == Init /\ [][Next]_vars

\* createInvestment and updateInvestment alone, with every subset of the fields
NextUpdate ==
    \/ \E input \in CreateInvestmentInputs : now < MaxUpdateTime /\ createInvestment(input) /\ Alone
    \/ \E input \in AllUpdateInvestmentInputs : now < MaxUpdateTime /\ updateInvestment(input) /\ Alone

SpecUpdate == Init /\ [][NextUpdate]_vars

\* updateExitDetails with every subset of the fields, and the handlers that bring
\* about the exit records and the parents' statuses it meets
NextExit ==
    \/ \E input \in CreateInvestmentInputs : now < MaxExitTime /\ createInvestment(input) /\ Alone
    \/ \E input \in UpdateStatusInputs : now < MaxExitTime /\ updateInvestment(input) /\ Alone
    \/ \E input \in CreateExitDetailsInputs : now < MaxExitTime /\ createExitDetails(input) /\ Alone
    \/ \E input \in UpdateExitDetailsInputs : now < MaxExitTime /\ updateExitDetails(input) /\ Alone

SpecExit == Init /\ [][NextExit]_vars

\* the handlers that write, as in Spec, and the queries
NextRead ==
    \/ \E input \in CreateInvestmentInputs : now < MaxReadTime /\ createInvestment(input) /\ Alone
    \/ \E input \in UpdateInvestmentInputs : now < MaxReadTime /\ updateInvestment(input) /\ Alone
    \/ \E input \in IdInputs : now < MaxReadTime /\ deleteInvestment(input) /\ Alone
    \/ \E input \in CreateExitDetailsInputs : now < MaxReadTime /\ createExitDetails(input) /\ Alone
    \/ \E input \in ExitIdInputs : now < MaxReadTime /\ deleteExitDetails(input) /\ Alone
    \/ now < MaxReadTime /\ getInvestmentsQuery /\ Alone
    \/ \E input \in IdInputs : now < MaxReadTime /\ getInvestmentByIdQuery(input) /\ Alone
    \/ \E input \in InvestmentIdInputs :
          now < MaxReadTime /\ getExitDetailsByInvestmentIdQuery(input) /\ Alone

SpecRead == Init /\ [][NextRead]_vars

\* createInvestment over the wider inputs, and getInvestmentById
NextCreate ==
    \/ \E input \in AllCreateInvestmentInputs : now < MaxCreateTime /\ createInvestment(input) /\ Alone
    \/ \E input \in IdInputs : now < MaxCreateTime /\ getInvestmentByIdQuery(input) /\ Alone

SpecCreate == Init /\ [][NextCreate]_vars

\* no caller's request has begun
NoneBegun == \A c \in Callers : inflight[c].pc = "idle"

\* a statement of a request: the histories of the handlers run alone stay, and the
\* dashboard is not looking
Statement == UNCHANGED <<call, before, scenario, returned_ids, dashboard>>

\* investments and exit records are brought about by handlers run alone; then each
\* caller makes one request, and the store executes the statements of the two
\* requests in any order, or fails in one
NextSteps ==
    \/ \E input \in CreateInvestmentInputs :
          NoneBegun /\ now < MaxSetupTime /\ createInvestment(input) /\ Alone
    \/ \E input \in CreateExitDetailsInputs :
          NoneBegun /\ now < MaxSetupTime /\ createExitDetails(input) /\ Alone
    \/ \E c \in Callers, input \in StepCreateExitDetailsInputs :
          createExitDetailsSelect(c, input) /\ Statement
    \/ \E c \in Callers : createExitDetailsInsert(c) /\ Statement
    \/ \E c \in Callers : createExitDetailsUpdate(c) /\ Statement
    \/ \E c \in Callers, input \in IdInputs : deleteInvestmentDelete(c, input) /\ Statement
    \/ \E c \in Callers, input \in UpdateStatusInputs :
          updateInvestmentSelect(c, input) /\ Statement
    \/ \E c \in Callers : updateInvestmentUpdate(c) /\ Statement
    \/ \E c \in Callers, input \in ExitIdInputs : deleteExitDetailsSelect(c, input) /\ Statement
    \/ \E c \in Callers : deleteExitDetailsDelete(c) /\ Statement
    \/ \E c \in Callers : deleteExitDetailsUpdate(c) /\ Statement
    \/ \E c \in Callers : storeFails(c) /\ Statement

SpecSteps == Init /\ [][NextSteps]_vars

\* the dashboard over a store that holds some records when it mounts
NextDashboard ==
    \/ \E input \in DashboardInvestmentInputs :
          ~dashboard.mounted /\ now < MaxSetupTime /\ createInvestment(input) /\ Alone
    \/ \E input \in StepCreateExitDetailsInputs :
          ~dashboard.mounted /\ now < MaxSetupTime /\ createExitDetails(input) /\ Alone
    \/ mount
    \/ \E l \in LoadsUnderWay : getInvestmentsResponds(l)
    \/ \E l \in LoadsUnderWay : getExitDetailsResponds(l)
    \/ \E l \in LoadsUnderWay : fetchFails(l)
    \/ \E l \in LoadsUnderWay : loadReceivesInvestments(l)
    \/ \E l \in LoadsUnderWay : loadReceivesExitDetails(l)
    \/ \E data \in DashboardInvestmentInputs : handleCreateInvestment(data)
    \/ \E data \in StepCreateExitDetailsInputs : handleCreateExit(data)
    \/ handleCreateExitUpdate

SpecDashboard == Init /\ [][NextDashboard]_vars

----------------------------------------------------------------------------
(* What the last request found and left *)

\* the investments row with this id before the last request, and now
RowBefore(id) == {r \in before.investments : r.id = id}
RowNow(id) == {r \in investments : r.id = id}

\* the exit records the last request inserted, and those it removed
ExitInserted == exit_details \ before.exit_details
ExitRemoved == before.exit_details \ exit_details

Succeeded(op) == call.op = op /\ call.outcome = "ok"

----------------------------------------------------------------------------
(* Claims *)

\* C1: a createExitDetails that succeeds for an investment whose stored status is not
\* Exited (Active or Written Off) stores one new exit record carrying the supplied
\* investment_id and leaves the investment Exited with a strictly later updated_at.
C1_CreateExitMarksExited ==
    Succeeded("createExitDetails") =>
        \A old \in RowBefore(call.input.investment_id) :
            old.status # "Exited" =>
                /\ \E e \in ExitInserted :
                      /\ ExitInserted = {e}
                      /\ e.investment_id = call.input.investment_id
                /\ RowNow(old.id) # {}
                /\ \A new \in RowNow(old.id) :
                      new.status = "Exited" /\ new.updated_at > old.updated_at

C1_Witness ==
    /\ Succeeded("createExitDetails")
    /\ \E old \in RowBefore(call.input.investment_id) : old.status = "Written Off"
    /\ \E new \in RowNow(call.input.investment_id) : new.status = "Exited"
    /\ \E e \in ExitInserted : e.investment_id = call.input.investment_id

\* C2: a createExitDetails that succeeds for an investment already Exited inserts the
\* exit record and leaves the investment row as it was, status and updated_at included.
C2_CreateExitLeavesExitedRow ==
    Succeeded("createExitDetails") =>
        \A old \in RowBefore(call.input.investment_id) :
            old.status = "Exited" =>
                /\ \E e \in ExitInserted : e.investment_id = call.input.investment_id
                /\ RowNow(old.id) = {old}

C2_Witness ==
    /\ Succeeded("createExitDetails")
    /\ \E old \in RowBefore(call.input.investment_id) :
          /\ old.status = "Exited"
          /\ old \in investments
          /\ old.updated_at < now - 1
    /\ ExitInserted # {}

C4_CreateThenDeleteExit ==
    LET response == getInvestmentById(scenario.investment_id)
    IN  /\ scenario.stage = "exited" =>
              response # Null /\ response[1].status = "Exited"
        /\ scenario.stage = "deleted" =>
              /\ response # Null /\ response[1].status = "Active"
              /\ getExitDetailsByInvestmentId(scenario.investment_id) = {Null}

C4_Witness ==
    /\ scenario.stage = "deleted"
    /\ Succeeded("deleteExitDetails")
    /\ call.input.id = scenario.exit_id
    /\ getInvestmentById(scenario.investment_id) # Null

\* C5: deleteInvestment of an existing id removes exactly that investment row and every
\* exit record of that investment; every other row of both tables stays as it was.
C5_DeleteInvestmentCascades ==
    (call.op = "deleteInvestment" /\ RowBefore(call.input.id) # {}) =>
        /\ investments = {r \in before.investments : r.id # call.input.id}
        /\ exit_details = {e \in before.exit_details : e.investment_id # call.input.id}

C5_Witness ==
    /\ call.op = "deleteInvestment"
    /\ RowBefore(call.input.id) # {}
    /\ \E e \in ExitRemoved : e.investment_id = call.input.id
    /\ \E e \in exit_details : e.investment_id # call.input.id
    /\ investments # {}

\* the value a numeric(15,2) column holds for a supplied amount: the amount rounded
\* to two decimal places
RoundedToCents(supplied, held) ==
    /\ held % 10 = 0
    /\ held - supplied <= 5
    /\ supplied - held <= 5

\* the value a real column holds for a supplied number: the number itself when it has
\* at most RealDigits significant digits, else the number rounded to that many
RoundedToReal(supplied, held) ==
    LET s == RealScale(supplied, 1)
    IN  /\ supplied % s = 0 => held = supplied
        /\ 2 * (held - supplied) <= s
        /\ 2 * (supplied - held) <= s

\* what the response shows in field f after value `supplied` was written to it
Held(f, supplied, held) ==
    CASE f \in {"amount_invested"} -> RoundedToCents(supplied, held)
      [] f = "current_valuation" ->
            IF supplied = Null THEN held = Null
            ELSE held # Null /\ RoundedToCents(supplied[1], held[1])
      [] f = "equity_percentage" -> RoundedToReal(supplied, held)
      [] OTHER -> held = supplied

\* C6 as amended: after an updateInvestment of an existing investment with any subset
\* of the mutable fields, each supplied field holds the supplied value, amounts rounded
\* to two decimal places and the percentage to the digits a real keeps (a supplied
\* null clears current_valuation or notes); every field not supplied keeps its value;
\* id and created_at are unchanged; updated_at is strictly later, also for the empty
\* subset.
C6_UpdateSetsSuppliedFieldsRounded ==
    Succeeded("updateInvestment") =>
        /\ RowNow(call.input.id) # {}
        /\ \A old \in RowBefore(call.input.id) : \A new \in RowNow(call.input.id) :
              /\ \A f \in MutableFields :
                    IF f \in DOMAIN call.input
                    THEN Held(f, call.input[f], Investment(new)[f])
                    ELSE new[f] = old[f]
              /\ new.id = old.id
              /\ new.created_at = old.created_at
              /\ new.updated_at > old.updated_at

C6_Witness ==
    /\ Succeeded("updateInvestment")
    /\ DOMAIN call.input = {"id", "notes", "company_name"}
    /\ call.input.notes = Null
    /\ \E old \in RowBefore(call.input.id) : \E new \in RowNow(call.input.id) :
          /\ old.notes # Null
          /\ new.notes = Null
          /\ new.company_name = call.input.company_name
          /\ new.company_name # old.company_name
          /\ new.amount_invested = old.amount_invested
          /\ new.updated_at > old.updated_at

\* C6 as claimed: each supplied field holds exactly the supplied value.
C6_UpdateSetsSuppliedFieldsExactly ==
    Succeeded("updateInvestment") =>
        /\ RowNow(call.input.id) # {}
        /\ \A old \in RowBefore(call.input.id) : \A new \in RowNow(call.input.id) :
              /\ \A f \in MutableFields :
                    IF f \in DOMAIN call.input
                    THEN Investment(new)[f] = call.input[f]
                    ELSE new[f] = old[f]
              /\ new.id = old.id
              /\ new.created_at = old.created_at
              /\ new.updated_at > old.updated_at

\* C7: updateInvestment with an id that matches no row fails with not-found, returns
\* no record and leaves both tables as they were.
C7_UpdateMissingIsNotFound ==
    (call.op = "updateInvestment" /\ RowBefore(call.input.id) = {}) =>
        /\ call.outcome = "NotFound"
        /\ call.result = Null
        /\ investments = before.investments
        /\ exit_details = before.exit_details

C7_Witness ==
    /\ call.op = "updateInvestment"
    /\ call.outcome = "NotFound"
    /\ call.input.id <= investments_id_seq
    /\ investments # {}

\* C8: deleteInvestment answers success=true exactly when a row with the id existed
\* before the call and is gone after it; for an id that matches no row it answers
\* success=false, raises nothing and changes no row.
C8_DeleteInvestmentSuccessIffRemoved ==
    call.op = "deleteInvestment" =>
        /\ call.outcome = "ok"
        /\ call.result # Null
        /\ call.result[1].success =
              (RowBefore(call.input.id) # {} /\ RowNow(call.input.id) = {})
        /\ RowBefore(call.input.id) = {} =>
              /\ investments = before.investments
              /\ exit_details = before.exit_details

C8_Witness ==
    /\ call.op = "deleteInvestment"
    /\ call.result = Some([success |-> FALSE])
    /\ call.input.id <= investments_id_seq
    /\ exit_details # {}

\* C9: createExitDetails with an investment_id that matches no investment row fails
\* with not-found, inserts no exit record and changes no investment row.
C9_CreateExitMissingIsNotFound ==
    (call.op = "createExitDetails" /\ RowBefore(call.input.investment_id) = {}) =>
        /\ call.outcome = "NotFound"
        /\ exit_details = before.exit_details
        /\ investments = before.investments

C9_Witness ==
    /\ call.op = "createExitDetails"
    /\ call.outcome = "NotFound"
    /\ investments # {}
    /\ exit_details # {}

\* C10: deleteExitDetails with an id that matches no exit record fails with not-found
\* (no success), deletes no exit record and changes no investment.
C10_DeleteExitMissingIsNotFound ==
    (call.op = "deleteExitDetails"
        /\ \A e \in before.exit_details : e.id # call.input.id) =>
        /\ call.outcome = "NotFound"
        /\ call.result = Null
        /\ exit_details = before.exit_details
        /\ investments = before.investments

C10_Witness ==
    /\ call.op = "deleteExitDetails"
    /\ call.outcome = "NotFound"
    /\ exit_details # {}
    /\ \E r \in investments : r.status = "Exited"

\* the exit_details row with this id before the last request, and now
ExitBefore(id) == {e \in before.exit_details : e.id = id}
ExitNow(id) == {e \in exit_details : e.id = id}

\* what the response shows in field f of an exit record after `supplied` was written
ExitHeld(f, supplied, held) ==
    CASE f = "proceeds_received" -> RoundedToCents(supplied, held)
      [] f = "exit_multiple" -> RoundedToReal(supplied, held)
      [] OTHER -> held = supplied

\* C11 as amended: an updateExitDetails of an existing exit record with a non-empty
\* subset of exit_date, proceeds_received, exit_multiple and notes succeeds; after it
\* each supplied field holds the supplied value, the proceeds rounded to two decimal
\* places and the multiple to the digits a real keeps; every field not supplied keeps
\* its value; id, investment_id and created_at are unchanged; the returned record is
\* the stored one.
C11_UpdateExitSetsSuppliedFieldsRounded ==
    /\ ( /\ call.op = "updateExitDetails"
         /\ ExitBefore(call.input.id) # {}
         /\ DOMAIN call.input # {"id"} ) => call.outcome = "ok"
    /\ Succeeded("updateExitDetails") =>
        /\ ExitNow(call.input.id) # {}
        /\ \A old \in ExitBefore(call.input.id) : \A new \in ExitNow(call.input.id) :
              /\ \A f \in ExitMutableFields :
                    IF f \in DOMAIN call.input
                    THEN ExitHeld(f, call.input[f], ExitDetails(new)[f])
                    ELSE new[f] = old[f]
              /\ new.id = old.id
              /\ new.investment_id = old.investment_id
              /\ new.created_at = old.created_at
              /\ call.result = Some(ExitDetails(new))

C11_Witness ==
    /\ Succeeded("updateExitDetails")
    /\ DOMAIN call.input = {"id", "proceeds_received", "notes"}
    /\ \E old \in ExitBefore(call.input.id) : \E new \in ExitNow(call.input.id) :
          /\ ExitDetails(new).proceeds_received = call.input.proceeds_received
          /\ new.proceeds_received # old.proceeds_received
          /\ new.notes = call.input.notes
          /\ new.notes # old.notes
          /\ new.exit_multiple = old.exit_multiple
          /\ new.exit_date = old.exit_date
          /\ call.result = Some(ExitDetails(new))

\* C11 as claimed: each supplied field holds exactly the supplied value.
C11_UpdateExitSetsSuppliedFieldsExactly ==
    Succeeded("updateExitDetails") =>
        /\ ExitNow(call.input.id) # {}
        /\ \A old \in ExitBefore(call.input.id) : \A new \in ExitNow(call.input.id) :
              /\ \A f \in ExitMutableFields :
                    IF f \in DOMAIN call.input
                    THEN ExitDetails(new)[f] = call.input[f]
                    ELSE new[f] = old[f]
              /\ new.id = old.id
              /\ new.investment_id = old.investment_id
              /\ new.created_at = old.created_at
              /\ call.result = Some(ExitDetails(new))

\* C12: updateExitDetails with an id that matches no exit record fails with not-found,
\* returns no record and leaves both tables as they were.
C12_UpdateExitMissingIsNotFound ==
    ( call.op = "updateExitDetails" /\ ExitBefore(call.input.id) = {} ) =>
        /\ call.outcome = "NotFound"
        /\ call.result = Null
        /\ investments = before.investments
        /\ exit_details = before.exit_details

C12_Witness ==
    /\ call.op = "updateExitDetails"
    /\ call.outcome = "NotFound"
    /\ ExitBefore(call.input.id) = {}
    /\ before.exit_details # {}
    /\ DOMAIN call.input # {"id"}
    /\ exit_details = before.exit_details

\* C13: an updateExitDetails, succeeding or failing, leaves every investments row as it
\* was, the parent of the exit record included, whatever its status.
C13_UpdateExitLeavesInvestments ==
    call.op = "updateExitDetails" => investments = before.investments

\* a successful update of an exit record whose parent is not Exited
C13_Witness ==
    /\ Succeeded("updateExitDetails")
    /\ exit_details # before.exit_details
    /\ \E e \in ExitNow(call.input.id) : \E r \in investments :
          /\ r.id = e.investment_id
          /\ r.status = "Active"
          /\ r \in before.investments

\* the last request left both tables as it found them
StoreUnchanged ==
    /\ investments = before.investments
    /\ exit_details = before.exit_details

\* C14: getInvestmentById gives the stored investment with the id when there is one and
\* null, never an error, when there is none, be the id never given out or the id of a
\* deleted investment; the tables are as before.
C14_GetInvestmentByIdStoredOrNull ==
    call.op = "getInvestmentById" =>
        /\ call.outcome = "ok"
        /\ \A r \in RowNow(call.input.id) : call.result = Some(Investment(r))
        /\ RowNow(call.input.id) = {} => call.result = Null
        /\ StoreUnchanged

\* null for the id of an investment that was created and deleted, beside a stored one
C14_Witness ==
    /\ call.op = "getInvestmentById"
    /\ call.outcome = "ok"
    /\ call.result = Null
    /\ call.input.id <= investments_id_seq
    /\ investments # {}
    /\ StoreUnchanged

\* C15: getExitDetailsByInvestmentId gives a stored exit record whose investment_id is
\* the input when the investment has one, and null without an error when it has none
\* or when there is no such investment; the tables are as before.
C15_GetExitDetailsStoredOrNull ==
    call.op = "getExitDetailsByInvestmentId" =>
        /\ call.outcome = "ok"
        /\ IF \E e \in exit_details : e.investment_id = call.input.investment_id
           THEN \E e \in exit_details :
                   /\ e.investment_id = call.input.investment_id
                   /\ call.result = Some(ExitDetails(e))
           ELSE call.result = Null
        /\ RowNow(call.input.investment_id) = {} => call.result = Null
        /\ StoreUnchanged

C15_Witness ==
    /\ call.op = "getExitDetailsByInvestmentId"
    /\ call.result # Null
    /\ call.result[1].investment_id = call.input.investment_id
    /\ \E r \in investments : r.id # call.input.investment_id
    /\ StoreUnchanged

\* C16: getInvestments gives every stored investment once, the empty list when there
\* is none, and an investment created later than another comes before it.
C16_GetInvestmentsNewestFirst ==
    call.op = "getInvestments" =>
        /\ call.outcome = "ok"
        /\ Len(call.result) = Cardinality(investments)
        /\ \A r \in investments :
              Cardinality({i \in DOMAIN call.result : call.result[i] = Investment(r)}) = 1
        /\ \A i, j \in DOMAIN call.result :
              call.result[i].created_at > call.result[j].created_at => i < j

C16_Witness ==
    /\ call.op = "getInvestments"
    /\ Len(call.result) = 2
    /\ call.result[1].created_at > call.result[2].created_at
    /\ call.result[1].id > call.result[2].id
    /\ call.result[2].updated_at > call.result[1].created_at

\* the monetary values of a creation input have at most two decimal places
TwoDecimalPlaces(input) ==
    /\ input.amount_invested % 10 = 0
    /\ input.current_valuation # Null => input.current_valuation[1] % 10 = 0

\* C17 as amended: for a creation input whose amounts have at most two decimal places,
\* createInvestment returns amount_invested, current_valuation (null when absent),
\* funding_round, status, company_name and notes as supplied and equity_percentage as
\* a real holds it, which is as supplied when it has at most RealDigits significant
\* digits; getInvestmentById on the returned id then gives the same record.
C17_CreateReturnsInputRealPercentage ==
    ( Succeeded("createInvestment") /\ TwoDecimalPlaces(call.input) ) =>
        /\ \A f \in MutableFields \ {"equity_percentage"} :
              call.result[1][f] = call.input[f]
        /\ RoundedToReal(call.input.equity_percentage, call.result[1].equity_percentage)
        /\ getInvestmentById(call.result[1].id) = call.result

C17_Witness ==
    /\ Succeeded("createInvestment")
    /\ TwoDecimalPlaces(call.input)
    /\ call.input.amount_invested = 10
    /\ call.result[1].amount_invested = 10
    /\ call.input.current_valuation = Null
    /\ call.result[1].current_valuation = Null
    /\ call.result[1].equity_percentage = 1000000
    /\ call.result[1].id = 2
    /\ getInvestmentById(2) = call.result

\* C17 as claimed: the percentage too comes back exactly as supplied.
C17_CreateReturnsInputExactly ==
    ( Succeeded("createInvestment") /\ TwoDecimalPlaces(call.input) ) =>
        /\ \A f \in MutableFields : call.result[1][f] = call.input[f]
        /\ getInvestmentById(call.result[1].id) = call.result

\* C18: the ids createInvestment has returned are pairwise distinct, an id of a deleted
\* investment included; no two stored investments share an id; every stored
\* investment carries an id createInvestment returned, and a request leaves a row that
\* stays in the table (the row of one creation time) with the id it had.
C18_InvestmentIdsUniqueAndFixed ==
    /\ \A i, j \in DOMAIN returned_ids : i # j => returned_ids[i] # returned_ids[j]
    /\ \A r1, r2 \in investments : r1.id = r2.id => r1 = r2
    /\ \A r \in investments : \E i \in DOMAIN returned_ids : returned_ids[i] = r.id
    /\ \A old \in before.investments : \A new \in investments :
          old.created_at = new.created_at => old.id = new.id
    /\ Succeeded("createInvestment") =>
          /\ call.result[1].id = returned_ids[Len(returned_ids)]
          /\ \A old \in before.investments : old.id # call.result[1].id

\* a creation after the only investment was deleted: the id is a new one
C18_Witness ==
    /\ Succeeded("createInvestment")
    /\ before.investments = {}
    /\ returned_ids = <<1, 2>>
    /\ call.result[1].id = 2
    /\ \A r \in investments : r.id = 2

\* C19: every investment that has an exit record has status Exited.  The handlers do
\* not keep this: updateInvestment writes whatever status it is given, and
\* deleteExitDetails makes the parent Active while another of its exit records stays.
C19_ExitRecordImpliesExited ==
    \A e \in exit_details : \A r \in investments :
        r.id = e.investment_id => r.status = "Exited"

\* C20: no two exit records have the same investment_id.  The handlers do not keep
\* this: createExitDetails looks for the investment, not for an exit record of it.
C20_AtMostOneExitRecord ==
    \A e1, e2 \in exit_details : e1.investment_id = e2.investment_id => e1 = e2

\* C21: whatever the order in which the store executes the statements of two requests,
\* every exit record has its investment: the insert of createExitDetails is refused
\* once a deleteInvestment has removed the parent, and the delete takes the parent's
\* exit records with it.
C21_ExitRecordHasInvestment ==
    \A e \in exit_details : \E r \in investments : r.id = e.investment_id

\* a createExitDetails that found its investment and whose insert was refused, the
\* other caller having deleted the investment in between
C21_Witness ==
    \E c, d \in Callers :
        /\ inflight[c].op = "createExitDetails"
        /\ inflight[c].statements = <<"select", "insert">>
        /\ inflight[c].outcome = "Unexpected"
        /\ inflight[d].op = "deleteInvestment"
        /\ inflight[d].input.id = inflight[c].input.investment_id
        /\ inflight[d].result = Some([success |-> TRUE])
        /\ \A e \in exit_details : e.investment_id # inflight[c].input.investment_id

\* C22: a createInvestment inserts one investments row, the one it returns, and does
\* nothing else: the rows stored before are as they were, and so is every exit record;
\* no exit record comes with an investment created as Exited.
C22_CreateInvestmentOnlyInserts ==
    Succeeded("createInvestment") =>
        /\ before.investments \subseteq investments
        /\ \E r \in investments :
              /\ investments \ before.investments = {r}
              /\ call.result = Some(Investment(r))
        /\ exit_details = before.exit_details
        /\ \A e \in exit_details : e.investment_id # call.result[1].id

\* an investment created as Exited beside an investment that has an exit record
C22_Witness ==
    /\ Succeeded("createInvestment")
    /\ call.input.status = "Exited"
    /\ before.investments # {}
    /\ before.exit_details # {}
    /\ exit_details = before.exit_details
    /\ Cardinality(investments) = Cardinality(before.investments) + 1
    /\ \A e \in exit_details : e.investment_id # call.result[1].id

\* caller c's is the only request begun
OnlyRequest(c) == \A d \in Callers \ {c} : inflight[d].pc = "idle"

\* caller c's request ended in a failure of the store in the statement after this one
FailedAfter(c, op, statement) ==
    /\ inflight[c].op = op
    /\ inflight[c].outcome = "Unexpected"
    /\ inflight[c].statements = <<"select", statement, "failed">>

\* C23: nothing is rolled back.  A createExitDetails in which the store fails after the
\* insert and before the status update ends in an error, its exit row stays and the
\* parent keeps its status, which is not Exited; a deleteExitDetails in which the store
\* fails after the delete and before the status update ends in an error, the exit row
\* stays deleted and the parent keeps its status.
C23_FailureBetweenStepsStays ==
    \A c \in Callers :
        /\ ( FailedAfter(c, "createExitDetails", "insert") /\ OnlyRequest(c) ) =>
              /\ inflight[c].inserted # {}
              /\ inflight[c].inserted \subseteq exit_details
              /\ StoredStatus(inflight[c].input.investment_id) = inflight[c].parent_status
              /\ inflight[c].parent_status \in InvestmentStatus \ {"Exited"}
        /\ ( FailedAfter(c, "deleteExitDetails", "delete") /\ OnlyRequest(c) ) =>
              /\ inflight[c].selected # {}
              /\ inflight[c].selected \cap exit_details = {}
              /\ \A e \in inflight[c].selected :
                    StoredStatus(e.investment_id) = inflight[c].parent_status
              /\ inflight[c].parent_status \in InvestmentStatus

\* the failure in deleteExitDetails: the exit record is gone, its investment Exited
C23_Witness ==
    \E c \in Callers :
        /\ FailedAfter(c, "deleteExitDetails", "delete")
        /\ OnlyRequest(c)
        /\ inflight[c].selected \cap exit_details = {}
        /\ \A e \in inflight[c].selected : StoredStatus(e.investment_id) = "Exited"

\* C24: a createExitDetails that returns successfully and whose insert ran while the
\* stored status of the investment was not Exited has made the status update.  The
\* handler does not keep this: its guard reads the row its select returned, and an
\* updateInvestment between the select and the insert goes unseen.
C24_StatusUpdateGuardedByStoredStatus ==
    \A c \in Callers :
        ( /\ inflight[c].op = "createExitDetails"
          /\ inflight[c].outcome = "ok"
          /\ inflight[c].parent_status \in InvestmentStatus \ {"Exited"} ) =>
            inflight[c].statements = <<"select", "insert", "update">>

\* C25: an updateInvestment in which the store did not fail ends with the updated
\* record or with not-found.  The handler does not keep this: when a deleteInvestment
\* removes the row between the select and the update, the update returns no row and
\* reading result[0] throws a TypeError.
C25_UpdateReturnsRecordOrNotFound ==
    \A c \in Callers :
        ( /\ inflight[c].op = "updateInvestment"
          /\ inflight[c].pc = "done"
          /\ inflight[c].outcome # "Unexpected" ) =>
            \/ inflight[c].outcome = "ok" /\ inflight[c].result # Null
            \/ inflight[c].outcome = "NotFound"

\* C30: two deleteExitDetails for the id of one exit record that exists, their
\* statements in any order and the store not failing: one returns success, the other
\* ends in an error (not-found, or the delete that removed nothing); the exit record
\* is gone and its investment is Active.
C30_ConcurrentDeleteExitOneSucceeds ==
    \A c, d \in Callers :
        ( /\ c # d
          /\ inflight[c].op = "deleteExitDetails" /\ inflight[c].pc = "done"
          /\ inflight[d].op = "deleteExitDetails" /\ inflight[d].pc = "done"
          /\ inflight[c].input.id = inflight[d].input.id
          /\ inflight[c].selected # {}
          /\ inflight[c].outcome # "Unexpected"
          /\ inflight[d].outcome # "Unexpected" ) =>
            /\ \/ /\ inflight[c].outcome = "ok"
                  /\ inflight[c].result = Some([success |-> TRUE])
                  /\ inflight[d].outcome \in {"NotFound", "Failed"}
               \/ /\ inflight[d].outcome = "ok"
                  /\ inflight[d].result = Some([success |-> TRUE])
                  /\ inflight[c].outcome \in {"NotFound", "Failed"}
            /\ SelectExitDetails(inflight[c].input.id) = {}
            /\ \A e \in inflight[c].selected : StoredStatus(e.investment_id) = "Active"

\* both selects found the exit record; one delete removed it, the other nothing
C30_Witness ==
    \E c, d \in Callers :
        /\ c # d
        /\ inflight[c].op = "deleteExitDetails" /\ inflight[c].outcome = "ok"
        /\ inflight[d].op = "deleteExitDetails" /\ inflight[d].outcome = "Failed"
        /\ inflight[c].input.id = inflight[d].input.id
        /\ inflight[d].statements = <<"select", "delete">>
        /\ inflight[c].selected = inflight[d].selected
        /\ SelectExitDetails(inflight[c].input.id) = {}
        /\ \A e \in inflight[c].selected : StoredStatus(e.investment_id) = "Active"

\* C26: an updateExitDetails with the id of an existing exit record and none of the
\* four fields succeeds and returns the record as it is stored, nothing changed.
C26_EmptyUpdateExitReturnsStored ==
    ( /\ call.op = "updateExitDetails"
      /\ ExitBefore(call.input.id) # {}
      /\ DOMAIN call.input = {"id"} ) =>
        /\ call.outcome = "ok"
        /\ exit_details = before.exit_details
        /\ \A e \in ExitNow(call.input.id) : call.result = Some(ExitDetails(e))

\* the ids of the investments the dashboard lists
Listed == {dashboard.investments[i].id : i \in DOMAIN dashboard.investments}

\* what C27 has one investment add to the portfolio value
PortfolioValueOf(inv) ==
    IF inv.id \in DOMAIN dashboard.exitDetails
    THEN dashboard.exitDetails[inv.id].proceeds_received
    ELSE IF inv.current_valuation # Null THEN inv.current_valuation[1]
    ELSE inv.amount_invested

\* C27: whenever the dashboard lists each investment once and the exit records it
\* holds are those of investments it lists, the portfolio value is the sum over the
\* listed investments of the proceeds of its exit record if it has one, else of its
\* current valuation if that is known, else of its amount invested; total invested is
\* the sum of the amounts invested; total realized is the sum of the proceeds over the
\* listed investments with an exit record.
C27_PortfolioMetrics ==
    ( /\ DOMAIN dashboard.exitDetails \subseteq Listed
      /\ \A i, j \in DOMAIN dashboard.investments :
            dashboard.investments[i].id = dashboard.investments[j].id => i = j ) =>
        /\ totalCurrentValue =
              reduce([i \in DOMAIN dashboard.investments |->
                         PortfolioValueOf(dashboard.investments[i])])
        /\ totalInvested =
              reduce([i \in DOMAIN dashboard.investments |->
                         dashboard.investments[i].amount_invested])
        /\ totalRealized =
              reduce([i \in DOMAIN dashboard.investments |->
                         IF dashboard.investments[i].id \in DOMAIN dashboard.exitDetails
                         THEN dashboard.exitDetails[dashboard.investments[i].id].proceeds_received
                         ELSE 0])

\* C28: a load in which a fetch failed does not show what it has as the result of a
\* load: it ends without setExitDetails, so that no investment whose exit record
\* could not be fetched is shown as one without an exit record.
C28_FailedFetchIsCouldNotLoad ==
    \A l \in DOMAIN dashboard.loads :
        dashboard.loads[l].presented =>
            /\ ~dashboard.loads[l].error
            /\ dashboard.loads[l].failed = {}

\* the investments of the store that have an exit record
WithExitRecord == {e.investment_id : e \in exit_details}

\* C29: once every call of loadInvestments has ended, no fetch of any of them having
\* failed, and no handler has written to the store since the last of them began, the
\* dashboard's list is what getInvestments gives and its map holds, for each
\* investment, what getExitDetailsByInvestmentId gives.
C29_LoadsLeaveNoStaleData ==
    ( /\ dashboard.loads # << >>
      /\ LoadsUnderWay = {}
      /\ ~dashboard.mutated
      /\ \A l \in DOMAIN dashboard.loads :
            ~dashboard.loads[l].error /\ dashboard.loads[l].failed = {} ) =>
        /\ dashboard.investments \in getInvestments
        /\ DOMAIN dashboard.exitDetails = WithExitRecord
        /\ \A id \in DOMAIN dashboard.exitDetails :
              Some(dashboard.exitDetails[id]) \in getExitDetailsByInvestmentId(id)

====
